---- MODULE Spec2Model ----
(***************************************************************************)
(* Tasty-Kitchen-apis: the Express backend of src/index.js and its older   *)
(* variant src/unnamed/part_001.  The model covers the user collection     *)
(* (mongoose model User with unique username and email), the /signup,      *)
(* /all, /login and /protected handlers of both variants, the concurrent   *)
(* execution of /signup (one step per await), and the dispatch of the      *)
(* /products routes in registration order.                                 *)
(***************************************************************************)
EXTENDS Integers, Sequences, FiniteSets, TLC

VARIABLES
    variant,      \* which source file is the running server
    users,        \* the documents of the users collection
    clock,        \* wall clock, in days
    issued,       \* history: the tokens sign() has returned in /login
    res,          \* the last request handled by an auth route, with its response
    reqs,         \* the /signup requests in flight, one record per request
    products,     \* the documents of the products collection
    nextProduct,  \* how many product documents were ever inserted
    pres,         \* the last /products request, with its response
    call,         \* one request followed from its arrival through its awaits
    people        \* part_000: the names of the documents of its User model

vars == <<variant, users, clock, issued, res, reqs, products, nextProduct, pres,
          call, people>>

authVars == <<users, clock, issued, res>>
productVars == <<products, nextProduct, pres>>
callVars == <<call, people>>

-----------------------------------------------------------------------------
(* Bounds and input sets *)

MaxClock == 61
MaxTokens == 1
MaxSalt == 2
MaxReqs == 2
MaxProducts == 2

\* expiresIn: "30d", in days
TokenTTL == 30
\* bcrypt.hash(password, 10)
SaltRounds == 10

Variants == {"index.js", "part_001"}

\* A field the JSON body does not carry
Undefined == "<undefined>"

Usernames == {"alice", "bob"}
Emails == {"a@x.com", "b@x.com"}
Passwords == {"p@ss1", "wrong"}
Salts == 1..MaxSalt
\* the time that passes between two requests
ClockSteps == {TokenTTL - 1, TokenTTL, TokenTTL + 1}

-----------------------------------------------------------------------------
(* bcryptjs, as the handlers use it.  A stored password field is a string: *)
(* either a bcrypt hash "$2a$<cost>$<salt><digest>" or any other text.  The *)
(* digest is a one-way function of cost, salt and plaintext and is         *)
(* represented by these three arguments.                                   *)

PlainText(s) == [tag |-> "text", cost |-> 0, salt |-> 0, pre |-> s]

BcryptHash(s, rounds, salt) ==
    [tag |-> "bcrypt", cost |-> rounds, salt |-> salt, pre |-> s]

\* bcrypt.hash rejects when the data is not a string
BcryptHashThrows(s) == s = Undefined

\* bcrypt.compare recomputes the digest with the hash's own cost and salt;
\* a string that is no bcrypt hash compares false
BcryptCompare(s, h) ==
    /\ h.tag = "bcrypt"
    /\ BcryptHash(s, h.cost, h.salt) = h

-----------------------------------------------------------------------------
(* jsonwebtoken: sign and verify with an HMAC over the payload *)

Secret(v) == IF v = "index.js" THEN "process.env.JWT_SECRET" ELSE "secretKey"

NoSig == [key |-> "", id |-> 0, iat |-> 0, exp |-> 0]

Hmac(id, iat, exp, key) == [key |-> key, id |-> id, iat |-> iat, exp |-> exp]

\* sign({id}, secret, {expiresIn: "30d"}): iat = now, exp = iat + 30 days
JwtSign(id, key, now) ==
    [kind |-> "jwt", id |-> id, iat |-> now, exp |-> now + TokenTTL,
     sig |-> Hmac(id, now, now + TokenTTL, key)]

\* verify with ignoreExpiration
JwtVerifyNoExpiry(t, key, now) ==
    /\ t.kind = "jwt"
    /\ t.sig = Hmac(t.id, t.iat, t.exp, key)

\* decode in the place of verify: the signature is not checked
JwtVerifyNoSignature(t, key, now) ==
    /\ t.kind = "jwt"
    /\ now < t.exp

\* verify(token, secret): the signature first, then the expiry
\* (expired when now >= exp); anything else throws
JwtVerify(t, key, now) ==
    /\ t.kind = "jwt"
    /\ t.sig = Hmac(t.id, t.iat, t.exp, key)
    /\ now < t.exp

-----------------------------------------------------------------------------
(* The Authorization header: absent, or a string seen as the list of its   *)
(* parts between single spaces (authHeader.split(" ")).                     *)

Word(w) == [kind |-> w, id |-> 0, iat |-> 0, exp |-> 0, sig |-> NoSig]
Bearer == Word("Bearer")
EmptyString == Word("")
\* a string holding spaces, which is no JWT
Spaced == Word("spaced")

NoHeader == <<>>

\* !x of a header or a token: undefined or the empty string
Falsy(h) == h = NoHeader \/ h = <<EmptyString>>

\* index.js: authHeader.split(" ")[1]
SplitSecond(h) == IF Len(h) >= 2 THEN h[2] ELSE EmptyString

\* part_001: the header value itself is the token
WholeHeader(h) ==
    IF Len(h) = 0 THEN EmptyString ELSE IF Len(h) = 1 THEN h[1] ELSE Spaced

\* both variants reading the header value as the token
ExtractTokenWhole(v, h) == WholeHeader(h)

\* the token each variant's /protected reads from the header
ExtractToken(v, h) == IF v = "index.js" THEN SplitSecond(h) ELSE WholeHeader(h)

-----------------------------------------------------------------------------
(* The users collection *)

NoUser == [id |-> 0, username |-> "", password |-> PlainText(""), email |-> ""]

\* User.findOne({ username })
FindByUsername(us, u) ==
    IF \E r \in us : r.username = u
    THEN CHOOSE r \in us : r.username = u
    ELSE NoUser

\* part_001: User.findOne({ username, password })
FindByCredentials(us, u, p) ==
    IF \E r \in us : r.username = u /\ r.password = PlainText(p)
    THEN CHOOSE r \in us : r.username = u /\ r.password = PlainText(p)
    ELSE NoUser

\* required: true on every path of userSchema
ValidationFails(doc) ==
    \/ doc.username = Undefined
    \/ doc.email = Undefined
    \/ doc.password = PlainText(Undefined)

\* a save into a collection whose unique indexes were never built
SaveWithoutIndexes(us, doc) ==
    IF ValidationFails(doc) THEN "ValidationError" ELSE "ok"

\* newUser.save(): validation, then the insert under the unique indexes
\* of username and email (E11000 duplicate key)
SaveResult(us, doc) ==
    IF ValidationFails(doc) THEN "ValidationError"
    ELSE IF \E r \in us : r.username = doc.username \/ r.email = doc.email
         THEN "E11000"
    ELSE "ok"

\* the collection after a save that succeeded; the document's _id is new
Inserted(us, doc) == us \cup {[doc EXCEPT !.id = Cardinality(us) + 1]}

\* new User({ username, password, email }) of each variant
NewUser(v, u, p, e, salt) ==
    [id |-> 0, username |-> u, email |-> e,
     password |-> IF v = "index.js" THEN BcryptHash(p, SaltRounds, salt)
                  ELSE PlainText(p)]

-----------------------------------------------------------------------------
(* Requests and responses of the auth routes *)

NoRes ==
    [route |-> "none", status |-> 0, message |-> "", error |-> "", details |-> "",
     userId |-> 0, token |-> EmptyString,
     username |-> "", password |-> "", email |-> "", header |-> NoHeader,
     time |-> 0]

\* the path the /signup handler takes, from what it reads
\* a handler without the existence check, on a collection without indexes
SignupOutcomeNoLookup(v, us, u, p, e, salt) ==
    IF v = "index.js" /\ BcryptHashThrows(p) THEN "Illegal arguments"
    ELSE SaveWithoutIndexes(us, NewUser(v, u, p, e, salt))

SignupOutcome(v, us, u, p, e, salt) ==
    IF FindByUsername(us, u) # NoUser THEN "exists"
    ELSE IF v = "index.js" /\ BcryptHashThrows(p) THEN "Illegal arguments"
    ELSE SaveResult(us, NewUser(v, u, p, e, salt))

SignupResponse(outcome) ==
    IF outcome = "exists"
    THEN [NoRes EXCEPT !.status = 400, !.error = "User already exists"]
    ELSE IF outcome = "ok"
    THEN [NoRes EXCEPT !.status = 200, !.message = "Signup successful"]
    ELSE [NoRes EXCEPT !.status = 500, !.error = "Something went wrong",
                       !.details = outcome]

\* a handler that saves before it checks
UsersAfterSignupAlwaysSaved(v, us, u, p, e, salt) ==
    Inserted(us, NewUser(v, u, p, e, salt))

\* the collection once the /signup handler has answered
UsersAfterSignup(v, us, u, p, e, salt) ==
    IF SignupOutcome(v, us, u, p, e, salt) = "ok"
    THEN Inserted(us, NewUser(v, u, p, e, salt))
    ELSE us

\* app.post("/signup"), handled without interruption
Signup(u, p, e, salt) ==
    /\ users' = UsersAfterSignup(variant, users, u, p, e, salt)
    /\ res' = [SignupResponse(SignupOutcome(variant, users, u, p, e, salt)) EXCEPT
                  !.route = "signup", !.username = u, !.password = p,
                  !.email = e, !.time = clock]
    /\ UNCHANGED <<variant, clock, issued, reqs, productVars, callVars>>

\* app.get("/all")
GetAll ==
    /\ res' = [NoRes EXCEPT !.route = "all", !.status = 200, !.time = clock]
    /\ UNCHANGED <<variant, users, clock, issued, reqs, productVars, callVars>>

\* the user /login accepts, NoUser when it answers Invalid credentials
LoginUser(v, us, u, p) ==
    IF v = "index.js"
    THEN IF FindByUsername(us, u) # NoUser
            /\ BcryptCompare(p, FindByUsername(us, u).password)
         THEN FindByUsername(us, u)
         ELSE NoUser
    ELSE FindByCredentials(us, u, p)

\* app.post("/login")
Login(u, p) ==
    LET user == LoginUser(variant, users, u, p)
        token == JwtSign(user.id, Secret(variant), clock)
        mint == [tok |-> token, sub |-> u]
    IN
    /\ user # NoUser => mint \in issued \/ Cardinality(issued) < MaxTokens
    /\ issued' = IF user # NoUser THEN issued \cup {mint} ELSE issued
    /\ res' = IF user = NoUser
              THEN [NoRes EXCEPT !.route = "login", !.status = 400,
                                 !.error = "Invalid credentials",
                                 !.username = u, !.password = p, !.time = clock]
              ELSE [NoRes EXCEPT !.route = "login", !.status = 200,
                                 !.message = "Login successful", !.token = token,
                                 !.username = u, !.password = p, !.time = clock]
    /\ UNCHANGED <<variant, users, clock, reqs, productVars, callVars>>

\* what a client may put in a token's place: a token /login returned, the
\* same with its payload altered, or one signed with another key
Minted == {m.tok : m \in issued}
UserIds == 1..Cardinality(Usernames)
Tampered ==
    {[t EXCEPT !.id = i] : t \in Minted, i \in UserIds}
    \cup {[t EXCEPT !.exp = t.exp + TokenTTL] : t \in Minted}
Forged == {JwtSign(i, "attackerKey", clock) : i \in UserIds}
ClientTokens == Minted \cup Tampered \cup Forged

Headers ==
    {NoHeader, <<EmptyString>>, <<Bearer>>, <<Bearer, EmptyString>>}
    \cup {<<t>> : t \in ClientTokens}
    \cup {<<Bearer, t>> : t \in ClientTokens}

\* the response of app.get("/protected")
ProtectedResponse(v, h, now) ==
    LET token == ExtractToken(v, h) IN
    IF Falsy(h)
    THEN [NoRes EXCEPT !.status = 403, !.error = "Token missing"]
    ELSE IF Falsy(<<token>>)
    THEN [NoRes EXCEPT !.status = 403, !.error = "Token missing or malformed"]
    ELSE IF JwtVerify(token, Secret(v), now)
    THEN [NoRes EXCEPT !.status = 200, !.message = "Protected data",
                       !.userId = token.id]
    ELSE [NoRes EXCEPT !.status = 401, !.error = "Invalid token"]

\* app.get("/protected")
Protected(h) ==
    /\ res' = [ProtectedResponse(variant, h, clock) EXCEPT
                  !.route = "protected", !.header = h, !.time = clock]
    /\ UNCHANGED <<variant, users, clock, issued, reqs, productVars, callVars>>

\* time passes between two requests
AdvanceClock(d) ==
    /\ clock + d <= MaxClock
    /\ clock' = clock + d
    /\ UNCHANGED <<variant, users, issued, res, reqs, productVars, callVars>>

-----------------------------------------------------------------------------

(* /signup with other requests running between its awaits: the findOne, *)
(* the continuation up to the save, and the save are three steps.       *)

NoReq ==
    [pc |-> "idle", username |-> "", password |-> "", email |-> "",
     found |-> FALSE, doc |-> NoUser, status |-> 0, error |-> "", details |-> ""]

Answered(q, outcome) ==
    [q EXCEPT !.pc = "done",
              !.status = SignupResponse(outcome).status,
              !.error = SignupResponse(outcome).error,
              !.details = SignupResponse(outcome).details]

\* the request arrives and the store runs User.findOne({ username })
SignupLookup(r, u, p, e) ==
    /\ reqs[r].pc = "idle"
    /\ reqs' = [reqs EXCEPT ![r] =
                   [NoReq EXCEPT !.pc = "looked", !.username = u, !.password = p,
                                 !.email = e,
                                 !.found = FindByUsername(users, u) # NoUser]]
    /\ UNCHANGED <<variant, authVars, productVars, callVars>>

\* the handler resumes: the 400, or the hash and new User(...)
SignupPrepare(r, salt) ==
    LET q == reqs[r] IN
    /\ q.pc = "looked"
    /\ reqs' = [reqs EXCEPT ![r] =
                   IF q.found THEN Answered(q, "exists")
                   ELSE IF variant = "index.js" /\ BcryptHashThrows(q.password)
                   THEN Answered(q, "Illegal arguments")
                   ELSE [q EXCEPT !.pc = "saving",
                                  !.doc = NewUser(variant, q.username, q.password,
                                                  q.email, salt)]]
    /\ UNCHANGED <<variant, authVars, productVars, callVars>>

\* the store runs newUser.save() and the handler answers
SignupSave(r) ==
    LET q == reqs[r] IN
    /\ q.pc = "saving"
    /\ users' = IF SaveResult(users, q.doc) = "ok" THEN Inserted(users, q.doc)
                ELSE users
    /\ reqs' = [reqs EXCEPT ![r] = Answered(q, SaveResult(users, q.doc))]
    /\ UNCHANGED <<variant, clock, issued, res, productVars, callVars>>

-----------------------------------------------------------------------------
(* The /products routes.  Express tries the routes in the order of their   *)
(* registration and runs the first whose method and path pattern match; a  *)
(* ":id" segment of a pattern matches any one segment of the path.         *)

Routes ==
    << [method |-> "POST",   pattern |-> <<"products">>,        handler |-> "createProducts"],
       [method |-> "GET",    pattern |-> <<"products">>,        handler |-> "getProducts"],
       [method |-> "GET",    pattern |-> <<"products", ":id">>, handler |-> "getProduct"],
       [method |-> "PUT",    pattern |-> <<"products", ":id">>, handler |-> "updateProduct"],
       [method |-> "DELETE", pattern |-> <<"products", ":id">>, handler |-> "deleteProduct"],
       [method |-> "DELETE", pattern |-> <<"products", "all">>, handler |-> "deleteAllProducts"] >>

PathMatches(pattern, path) ==
    /\ Len(pattern) = Len(path)
    /\ \A i \in 1..Len(pattern) : pattern[i] = ":id" \/ pattern[i] = path[i]

RouteMatches(route, method, path) ==
    route.method = method /\ PathMatches(route.pattern, path)

\* the handler of the first route that matches
Dispatch(method, path) ==
    IF \E i \in 1..Len(Routes) : RouteMatches(Routes[i], method, path)
    THEN Routes[CHOOSE i \in 1..Len(Routes) :
                /\ RouteMatches(Routes[i], method, path)
                /\ \A j \in 1..(i - 1) : ~RouteMatches(Routes[j], method, path)].handler
    ELSE "notFound"

\* the ObjectIds, written as the 24 hex digits of a path segment
ObjectIdOf(n) == ToString(n)
ObjectIds == {ObjectIdOf(n) : n \in 1..(MaxProducts + 1)}

\* ObjectId.isValid(id); new ObjectId(id) throws when it is false
ObjectIdIsValid(id) == id \in ObjectIds

ProductData == {"dosa", "idli"}
\* a request body: a JSON object { data: d }, or an array of such objects
ObjectOf(d) == [isArray |-> FALSE, items |-> <<d>>]
ArrayOf(items) == [isArray |-> TRUE, items |-> items]
ProductBodies ==
    {ArrayOf(<<>>)}
    \cup {ObjectOf(d) : d \in ProductData}
    \cup {ArrayOf(<<d>>) : d \in ProductData}
    \cup {ArrayOf(<<d, d>>) : d \in ProductData}

ProductPaths == {<<"products">>, <<"products", "all">>}
                \cup {<<"products", id>> : id \in ObjectIds}

NoPres ==
    [method |-> "", path |-> <<>>, handler |-> "", status |-> 0, message |-> "",
     error |-> "", count |-> 0]

\* insertMany: each document gets a new _id
InsertMany(ps, n, items) ==
    ps \cup {[id |-> ObjectIdOf(n + i), data |-> items[i]] : i \in 1..Len(items)}

\* the products collection after the handler ran
ProductsAfter(handler, ps, n, path, body) ==
    CASE handler = "createProducts" /\ body.isArray /\ Len(body.items) > 0
            -> InsertMany(ps, n, body.items)
      [] handler = "updateProduct" /\ ObjectIdIsValid(path[2])
            -> {IF d.id = path[2] THEN [d EXCEPT !.data = body.items[1]] ELSE d : d \in ps}
      [] handler = "deleteProduct" /\ ObjectIdIsValid(path[2])
            -> {d \in ps : d.id # path[2]}
      [] handler = "deleteAllProducts" -> {}
      [] OTHER -> ps

\* the response of the handler
ProductResponse(handler, ps, path, body) ==
    CASE handler = "createProducts" ->
            IF ~body.isArray \/ Len(body.items) = 0
            THEN [NoPres EXCEPT !.status = 400,
                                !.error = "Request body must be an array of products"]
            ELSE [NoPres EXCEPT !.status = 201, !.message = "Products added successfully",
                                !.count = Len(body.items)]
      [] handler = "getProducts" ->
            [NoPres EXCEPT !.status = 200, !.count = Cardinality(ps)]
      [] handler = "getProduct" ->
            IF ~ObjectIdIsValid(path[2])
            THEN [NoPres EXCEPT !.status = 400, !.error = "Invalid product ID"]
            ELSE IF \A d \in ps : d.id # path[2]
            THEN [NoPres EXCEPT !.status = 404, !.error = "Product not found"]
            ELSE [NoPres EXCEPT !.status = 200, !.count = 1]
      [] handler = "updateProduct" ->
            IF ~ObjectIdIsValid(path[2])
            THEN [NoPres EXCEPT !.status = 500, !.error = "Failed to update product"]
            ELSE IF \A d \in ps : d.id # path[2]
            THEN [NoPres EXCEPT !.status = 404, !.error = "Product not found"]
            ELSE [NoPres EXCEPT !.status = 200, !.message = "Product updated"]
      [] handler = "deleteProduct" ->
            IF ~ObjectIdIsValid(path[2])
            THEN [NoPres EXCEPT !.status = 500, !.error = "Failed to delete product"]
            ELSE IF \A d \in ps : d.id # path[2]
            THEN [NoPres EXCEPT !.status = 404, !.error = "Product not found"]
            ELSE [NoPres EXCEPT !.status = 200, !.message = "Product deleted"]
      [] handler = "deleteAllProducts" ->
            [NoPres EXCEPT !.status = 200,
                           !.message = "All products deleted successfully",
                           !.count = Cardinality(ps)]
      [] OTHER -> [NoPres EXCEPT !.status = 404]

\* one request to the /products routes, from its dispatch to its response
ProductRequest(method, path, body) ==
    LET handler == Dispatch(method, path) IN
    /\ handler = "createProducts" /\ body.isArray
            => nextProduct + Len(body.items) <= MaxProducts
    /\ handler = "updateProduct" => ~body.isArray
    /\ products' = ProductsAfter(handler, products, nextProduct, path, body)
    /\ nextProduct' = IF handler = "createProducts" /\ body.isArray
                      THEN nextProduct + Len(body.items) ELSE nextProduct
    /\ pres' = [ProductResponse(handler, products, path, body) EXCEPT
                   !.method = method, !.path = path, !.handler = handler]
    /\ UNCHANGED <<variant, authVars, reqs, callVars>>

-----------------------------------------------------------------------------
(* One request followed step by step: each await of its handler is a step  *)
(* at which the awaited store operation resolves or rejects.  sent counts  *)
(* the responses written for the request.  The routes are those of the     *)
(* auth handlers and those of part_000 (/users and /register).             *)

NoCall ==
    [route |-> "", pc |-> "idle", sent |-> 0, status |-> 0,
     username |-> "", password |-> "", email |-> "", doc |-> NoUser]

\* res.status(...).json(...) / res.send(...): one response written
Respond(q, status) == [q EXCEPT !.sent = @ + 1, !.status = status]

\* the handler returned, or its promise settled
Ended(q) == [q EXCEPT !.pc = "done"]

\* app.post('/register', authenticateMiddleware, (req, res) => { }):
\* the handler next() runs writes nothing
EmptyHandler(q) == Ended(q)

\* the first await of each route's handler
FirstAwait(route) ==
    CASE route \in {"signup", "login"} -> "findOne"
      [] route \in {"all", "users.get", "register"} -> "find"
      [] OTHER -> "save"

\* the fields of req.body each handler destructures; /all and GET /users
\* read none
CallBodies ==
    [route : {"signup"}, username : Usernames,
     password : Passwords \cup {Undefined}, email : Emails]
    \cup [route : {"login"}, username : Usernames, password : Passwords, email : {""}]
    \cup [route : {"users.post", "register"}, username : Usernames,
          password : {""}, email : {""}]
    \cup [route : {"all", "users.get"}, username : {""}, password : {""}, email : {""}]

\* a request arrives at a handler that awaits the store
CallReceive(b) ==
    /\ call.pc \in {"idle", "done", "unhandled"}
    /\ call' = [NoCall EXCEPT !.route = b.route, !.pc = FirstAwait(b.route),
                              !.username = b.username, !.password = b.password,
                              !.email = b.email]
    /\ UNCHANGED <<variant, authVars, reqs, productVars, people>>

\* /protected has no await: it answers in the turn the request arrives
CallProtected(h) ==
    /\ call.pc \in {"idle", "done", "unhandled"}
    /\ call' = Ended(Respond([NoCall EXCEPT !.route = "protected"],
                             ProtectedResponse(variant, h, clock).status))
    /\ UNCHANGED <<variant, authVars, reqs, productVars, people>>

\* /signup: await User.findOne({ username }) settles
CallSignupFindOne(ok) ==
    /\ call.route = "signup" /\ call.pc = "findOne"
    /\ call' = IF ~ok THEN Ended(Respond(call, 500))
               ELSE IF FindByUsername(users, call.username) # NoUser
               THEN Ended(Respond(call, 400))
               ELSE IF variant = "index.js" THEN [call EXCEPT !.pc = "hash"]
               ELSE [call EXCEPT !.pc = "save",
                                 !.doc = NewUser(variant, call.username, call.password,
                                                 call.email, 1)]
    /\ UNCHANGED <<variant, authVars, reqs, productVars, people>>

\* /signup of index.js: await bcrypt.hash(password, 10) settles
CallSignupHash(salt) ==
    /\ call.route = "signup" /\ call.pc = "hash"
    /\ call' = IF BcryptHashThrows(call.password) THEN Ended(Respond(call, 500))
               ELSE [call EXCEPT !.pc = "save",
                                 !.doc = NewUser(variant, call.username, call.password,
                                                 call.email, salt)]
    /\ UNCHANGED <<variant, authVars, reqs, productVars, people>>

\* /signup: await newUser.save() settles
CallSignupSave(ok) ==
    LET saved == ok /\ SaveResult(users, call.doc) = "ok" IN
    /\ call.route = "signup" /\ call.pc = "save"
    /\ users' = IF saved THEN Inserted(users, call.doc) ELSE users
    /\ call' = Ended(Respond(call, IF saved THEN 200 ELSE 500))
    /\ UNCHANGED <<variant, clock, issued, res, reqs, productVars, people>>

\* /login: await User.findOne(...) settles; part_001 signs in the same turn
CallLoginFindOne(ok) ==
    /\ call.route = "login" /\ call.pc = "findOne"
    /\ call' = IF ~ok THEN Ended(Respond(call, 500))
               ELSE IF variant = "index.js"
               THEN IF FindByUsername(users, call.username) = NoUser
                    THEN Ended(Respond(call, 400))
                    ELSE [call EXCEPT !.pc = "compare"]
               ELSE IF FindByCredentials(users, call.username, call.password) = NoUser
                    THEN Ended(Respond(call, 400))
                    ELSE Ended(Respond(call, 200))
    /\ UNCHANGED <<variant, authVars, reqs, productVars, people>>

\* /login of index.js: await bcrypt.compare(...) settles
CallLoginCompare ==
    /\ call.route = "login" /\ call.pc = "compare"
    /\ call' = IF LoginUser(variant, users, call.username, call.password) = NoUser
               THEN Ended(Respond(call, 400))
               ELSE Ended(Respond(call, 200))
    /\ UNCHANGED <<variant, authVars, reqs, productVars, people>>

\* /all and part_000's GET /users: await User.find() settles
CallFindAll(ok) ==
    /\ call.route \in {"all", "users.get"} /\ call.pc = "find"
    /\ call' = Ended(Respond(call, IF ok THEN 200 ELSE 500))
    /\ UNCHANGED <<variant, authVars, reqs, productVars, people>>

\* part_000's POST /users: await user.save() settles
CallUsersPostSave(ok) ==
    /\ call.route = "users.post" /\ call.pc = "save"
    /\ people' = IF ok THEN people \cup {call.username} ELSE people
    /\ call' = Ended(Respond(call, IF ok THEN 201 ELSE 500))
    /\ UNCHANGED <<variant, authVars, reqs, productVars>>

\* the middleware after User.find({name}) resolved: one res.send on either
\* branch, then next()
RegisterAfterFind(q, found) == EmptyHandler(Respond(q, 200))

\* the middleware's promise rejected before any res.send: it has no
\* try/catch, so nothing of the application answers
RegisterRejected(q, forwarded) ==
    IF forwarded THEN Ended(Respond(q, 500)) ELSE [q EXCEPT !.pc = "unhandled"]

\* part_000's POST /register: await User.find({name}) settles.  When it
\* rejects, an Express that forwards rejected promises answers 500 from its
\* default error handler; one that does not leaves the request unanswered.
CallRegisterFind(ok, forwarded) ==
    /\ call.route = "register" /\ call.pc = "find"
    /\ call' = IF ok THEN RegisterAfterFind(call, call.username \in people)
               ELSE RegisterRejected(call, forwarded)
    /\ UNCHANGED <<variant, authVars, reqs, productVars, people>>

-----------------------------------------------------------------------------

Init ==
    /\ variant \in Variants
    /\ users = {}
    /\ clock = 0
    /\ issued = {}
    /\ res = NoRes
    /\ reqs = [r \in 1..MaxReqs |-> NoReq]
    /\ products = {}
    /\ nextProduct = 0
    /\ pres = NoPres
    /\ call = NoCall
    /\ people = {}

\* the auth routes, each request handled to its response before the next
Next ==
    \/ \E u \in Usernames, p \in Passwords \cup {Undefined}, e \in Emails,
          salt \in Salts : Signup(u, p, e, salt)
    \/ GetAll
    \/ \E u \in Usernames, p \in Passwords : Login(u, p)
    \/ \E h \in Headers : Protected(h)

Spec == Init /\ [][Next]_vars

\* the same routes while time passes; every account is created with the
\* password "p@ss1"
NextClock ==
    \/ \E u \in Usernames, e \in Emails, salt \in Salts :
          Signup(u, "p@ss1", e, salt)
    \/ \E u \in Usernames, p \in Passwords : Login(u, p)
    \/ \E h \in Headers : Protected(h)
    \/ \E d \in ClockSteps : AdvanceClock(d)

SpecClock == Init /\ [][NextClock]_vars

\* concurrent signups
NextConcurrent ==
    \/ \E r \in 1..MaxReqs, u \in Usernames, p \in Passwords \cup {Undefined},
          e \in Emails : SignupLookup(r, u, p, e)
    \/ \E r \in 1..MaxReqs, salt \in Salts : SignupPrepare(r, salt)
    \/ \E r \in 1..MaxReqs : SignupSave(r)

SpecConcurrent == Init /\ [][NextConcurrent]_vars

\* requests to the /products routes
NextProducts ==
    \E method \in {"GET", "POST", "PUT", "DELETE"}, path \in ProductPaths,
       body \in ProductBodies : ProductRequest(method, path, body)

SpecProducts == Init /\ [][NextProducts]_vars

\* one request at a time, followed through its awaits
NextCalls ==
    \/ \E b \in CallBodies : CallReceive(b)
    \/ \E h \in Headers : CallProtected(h)
    \/ \E ok \in BOOLEAN : CallSignupFindOne(ok)
    \/ \E salt \in Salts : CallSignupHash(salt)
    \/ \E ok \in BOOLEAN : CallSignupSave(ok)
    \/ \E ok \in BOOLEAN : CallLoginFindOne(ok)
    \/ CallLoginCompare
    \/ \E ok \in BOOLEAN : CallFindAll(ok)
    \/ \E ok \in BOOLEAN : CallUsersPostSave(ok)
    \/ \E ok \in BOOLEAN, forwarded \in BOOLEAN : CallRegisterFind(ok, forwarded)

SpecCalls == Init /\ [][NextCalls]_vars

-----------------------------------------------------------------------------
(* Properties of the auth routes, requests handled one after another *)

\* the response body alone, without the request it answers
Body(r) ==
    [status |-> r.status, message |-> r.message, error |-> r.error,
     details |-> r.details, userId |-> r.userId, token |-> r.token]

\* a step in which the /signup handler ran
SignupHandled == res'.route = "signup" /\ (res' # res \/ users' # users)

\* C1: with signups handled one after another, a signup whose username and
\* email are both new answers 200 "Signup successful" and adds exactly one
\* record; a signup whose username is already stored answers 400 "User
\* already exists" and leaves every stored record as it was.
C1_SignupOnceThenDuplicate ==
    [][SignupHandled =>
        /\ (\E r \in users : r.username = res'.username) =>
              /\ Body(res') = [Body(NoRes) EXCEPT !.status = 400,
                                                 !.error = "User already exists"]
              /\ users' = users
        /\ (/\ res'.password # Undefined
            /\ \A r \in users : r.username # res'.username /\ r.email # res'.email) =>
              /\ Body(res') = [Body(NoRes) EXCEPT !.status = 200,
                                                 !.message = "Signup successful"]
              /\ \E r \in users' \ users :
                    /\ users' = users \cup {r}
                    /\ r.username = res'.username
                    /\ r.email = res'.email
    ]_vars

\* a second signup for a stored username, with another email and password,
\* was refused and the record kept
C1_Witness ==
    /\ res.route = "signup" /\ res.status = 400
    /\ \E r \in users : /\ r.username = res.username
                        /\ r.email # res.email
                        /\ r.password.pre # res.password

\* C2: /login answers 200 with a token exactly when a record with the
\* username exists and the submitted password verifies (bcrypt.compare)
\* against the record's stored password field; otherwise the answer is the
\* one 400 "Invalid credentials" body, whether or not the username exists.
C2_LoginIffHashVerifies ==
    res.route = "login" =>
        IF \E r \in users : /\ r.username = res.username
                            /\ BcryptCompare(res.password, r.password)
        THEN /\ res.status = 200
             /\ res.token.kind = "jwt"
        ELSE Body(res) = [Body(NoRes) EXCEPT !.status = 400,
                                            !.error = "Invalid credentials"]

\* C2 on the server of src/index.js alone
C2_LoginIffHashVerifiesIndexJs == variant = "index.js" => C2_LoginIffHashVerifies

\* C7: every stored password field is a bcrypt hash made at signup, never
\* the text the client sent, and a login that succeeded did so through
\* bcrypt.compare against the stored field.
C7_PasswordsHashed ==
    /\ \A r \in users :
          /\ r.password.tag = "bcrypt"
          /\ r.password # PlainText(r.password.pre)
    /\ (res.route = "login" /\ res.status = 200) =>
          BcryptCompare(res.password, FindByUsername(users, res.username).password)

\* C7 on the server of src/index.js alone
C7_PasswordsHashedIndexJs == variant = "index.js" => C7_PasswordsHashed

\* C8: a signup (with a password) whose username or email is already stored
\* answers 400 "User already exists" and leaves the collection unchanged.
C8_ConflictAnswers400 ==
    [][(/\ SignupHandled
        /\ res'.password # Undefined
        /\ \E r \in users : r.username = res'.username \/ r.email = res'.email) =>
            /\ res'.status = 400
            /\ res'.error = "User already exists"
            /\ users' = users
    ]_vars

\* C9: the users collection changes only in a signup that answers 200, and
\* then by exactly one added record; every other step (a failing signup, a
\* login, /protected, /all) leaves the collection and each record as it was.
C9_OnlySignupWrites ==
    [][users' # users =>
        /\ res'.route = "signup"
        /\ res'.status = 200
        /\ \E r \in users' \ users : users' = users \cup {r}
    ]_vars

\* a signup failed in its hash step, one failed in its insert, a login
\* succeeded: the last response is a failure and a record is stored
C9_Witness ==
    /\ res.route = "signup" /\ res.status = 500 /\ res.details = "E11000"
    /\ Cardinality(users) = 1
    /\ issued # {}

-----------------------------------------------------------------------------
(* Properties of the tokens, with time passing *)

\* the header a client of each variant sends: "Bearer <token>" to
\* src/index.js, the bare token to part_001
AuthHeader(v, t) == IF v = "index.js" THEN <<Bearer, t>> ELSE <<t>>

\* C4 as stated: the token /login returned for a user, sent before its
\* expiry as "Authorization: Bearer <token>", gets 200 with that user's id.
C4_BearerRoundTrip ==
    res.route = "protected" =>
        \A m \in issued :
            (res.header = <<Bearer, m.tok>> /\ res.time < m.tok.exp) =>
                /\ res.status = 200
                /\ res.userId = FindByUsername(users, m.sub).id

\* C4 amended: the token /login returned for a user, sent before its
\* expiry in the header form the server reads ("Bearer <token>" for
\* src/index.js, the bare token for part_001), gets 200 with that user's
\* id, which is the id of no other user.
C4_RoundTrip ==
    res.route = "protected" =>
        \A m \in issued :
            (res.header = AuthHeader(variant, m.tok) /\ res.time < m.tok.exp) =>
                /\ res.status = 200
                /\ res.userId = FindByUsername(users, m.sub).id
                /\ res.userId # 0
                /\ \A r \in users : r.username # m.sub => r.id # res.userId

C4_Witness ==
    /\ res.route = "protected" /\ res.status = 200
    /\ Cardinality(users) = 2
    /\ \E m \in issued : /\ res.header = AuthHeader(variant, m.tok)
                         /\ res.userId = FindByUsername(users, m.sub).id
                         /\ res.userId = Cardinality(users)

\* C5: a token /login mints at time t has iat = t and exp = t + 30 days,
\* and /protected answers 401 "Invalid token" without a userId to every
\* request whose token is read at or after its exp.
C5_ExpiredRejected ==
    /\ (res.route = "login" /\ res.status = 200) =>
          /\ res.token.iat = res.time
          /\ res.token.exp = res.time + TokenTTL
    /\ \A m \in issued : m.tok.exp = m.tok.iat + TokenTTL
    /\ res.route = "protected" =>
          LET t == ExtractToken(variant, res.header) IN
          (t.kind = "jwt" /\ res.time >= t.exp) =>
              Body(res) = [Body(NoRes) EXCEPT !.status = 401,
                                             !.error = "Invalid token"]

\* a token /login minted was presented after its expiry
C5_Witness ==
    /\ res.route = "protected" /\ res.status = 401
    /\ ExtractToken(variant, res.header) \in Minted
    /\ res.time > ExtractToken(variant, res.header).exp

\* C6: /protected answers 403 exactly when the header or its token part is
\* missing, 200 exactly when the token it reads is one /login minted,
\* unmodified and unexpired, and 401 in every other case; only a 200
\* carries a userId, the one of the token.
C6_ThreeOutcomes ==
    res.route = "protected" =>
        LET t == ExtractToken(variant, res.header)
            missing == Falsy(res.header) \/ t = EmptyString
            genuine == t \in Minted /\ res.time < t.exp
        IN
        /\ res.status \in {200, 401, 403}
        /\ res.status = 403 <=> missing
        /\ res.status = 200 <=> ~missing /\ genuine
        /\ res.status = 401 <=> ~missing /\ ~genuine
        /\ res.status = 200 => res.userId = t.id /\ res.message = "Protected data"
        /\ res.status # 200 => res.userId = 0 /\ res.message = ""

\* an unexpired token whose payload was altered, or that another key
\* signed, was refused
C6_Witness ==
    /\ res.route = "protected" /\ res.status = 401
    /\ ExtractToken(variant, res.header).kind = "jwt"
    /\ ExtractToken(variant, res.header) \notin Minted
    /\ res.time < ExtractToken(variant, res.header).exp
    /\ issued # {}

-----------------------------------------------------------------------------
(* Properties of concurrent signups *)

Done(r) == reqs[r].pc = "done"

\* the signups for username u that have answered 200
Winners(u) ==
    {a \in 1..MaxReqs : Done(a) /\ reqs[a].status = 200 /\ reqs[a].username = u}

\* C3: under every interleaving of the steps of concurrent signups, no two
\* stored records share a username or an email; the signups for one
\* username that answered 200 are as many as the records stored for it, at
\* most one, and the stored record is the winner's document; when two
\* signups for one username have both answered, each with a password and
\* with no other username holding their emails, one signup for that
\* username has persisted its record and the others have failed; no step
\* changes or removes a stored record.
C3_ConcurrentSignupsUnique ==
    /\ [](\A a, b \in users :
             a # b => /\ a.username # b.username
                      /\ a.email # b.email
                      /\ a.id # b.id)
    /\ [](\A u \in Usernames :
             /\ Cardinality(Winners(u)) = Cardinality({r \in users : r.username = u})
             /\ Cardinality(Winners(u)) <= 1
             /\ \A a \in Winners(u) : \E r \in users : [r EXCEPT !.id = 0] = reqs[a].doc)
    /\ [](\A a, b \in 1..MaxReqs :
             (/\ a # b /\ Done(a) /\ Done(b)
              /\ reqs[a].username = reqs[b].username
              /\ reqs[a].password # Undefined
              /\ reqs[b].password # Undefined
              /\ \A r \in users :
                    r.email \in {reqs[a].email, reqs[b].email}
                        => r.username = reqs[a].username) =>
                 /\ Cardinality(Winners(reqs[a].username)) = 1
                 /\ reqs[a].status # 200 \/ reqs[b].status # 200)
    /\ [][\A r \in users : r \in users']_vars

\* two signups for one username both passed the lookup; one was saved and
\* the other lost at the insert
C3_Witness ==
    /\ Done(1) /\ Done(2)
    /\ reqs[1].username = reqs[2].username
    /\ reqs[1].status = 200
    /\ reqs[2].status = 500 /\ reqs[2].details = "E11000"
    /\ reqs[1].doc # reqs[2].doc

-----------------------------------------------------------------------------
(* Properties of the /products routes *)

\* C10: a DELETE /products/all request is handled by the delete-all
\* handler: it answers 200 "All products deleted successfully" with
\* deletedCount the number of documents there were, and the products
\* collection is empty afterwards.
C10_DeleteAllReachesHandler ==
    [][(/\ pres'.method = "DELETE"
        /\ pres'.path = <<"products", "all">>
        /\ (pres' # pres \/ products' # products)) =>
            /\ pres'.handler = "deleteAllProducts"
            /\ pres'.status = 200
            /\ pres'.message = "All products deleted successfully"
            /\ pres'.count = Cardinality(products)
            /\ products' = {}
    ]_vars

\* what the code does with DELETE /products/all: the /products/:id handler
\* runs with id = "all", new ObjectId("all") throws and the answer is 500;
\* no document is removed.
C10_DeleteAllHandledAsId ==
    [][(/\ pres'.method = "DELETE"
        /\ pres'.path = <<"products", "all">>
        /\ (pres' # pres \/ products' # products)) =>
            /\ pres'.handler = "deleteProduct"
            /\ pres'.status = 500
            /\ pres'.error = "Failed to delete product"
            /\ products' = products
    ]_vars

-----------------------------------------------------------------------------
(* Properties of the responses *)

\* the request's handler has nothing left to run
CallOver == call.pc \in {"done", "unhandled"}

\* C11: every request a route handler accepted gets exactly one response,
\* also when the store operation it awaits fails: no request has two
\* responses written, one whose handler has nothing left to run has one,
\* and one still in flight has a step to take.
C11_ExactlyOneResponse ==
    /\ call.sent <= 1
    /\ CallOver => call.sent = 1
    /\ call.pc \notin {"idle", "done", "unhandled"} => ENABLED NextCalls

\* C11 for the handlers with a try/catch (every route but /register)
C11_TryCatchHandlersRespondOnce == call.route # "register" => C11_ExactlyOneResponse

\* /register with User.find resolving: one response, none from next()
C11_RegisterRespondsWhenFindResolves ==
    (call.route = "register" /\ call.pc = "done") => call.sent = 1

====
